---- MODULE Spec2Model ----
(***************************************************************************)
(* Model of hinglish_translator.py: the HinglishTranslator class (script   *)
(* detection, sentence segmentation, term preservation / restoration, the  *)
(* translate orchestration around the external GoogleTranslator) and the   *)
(* Translate button handler of main() with its session history.            *)
(*                                                                         *)
(* A Python str is a sequence of Unicode code points (naturals), so the    *)
(* character classes of the regular expressions and of str.strip() are the *)
(* code-point ranges the interpreter uses.  The classes are given for the  *)
(* ASCII range, the Devanagari block U+0900..U+097F and the three extra    *)
(* terminator characters of split_sentences.                               *)
(***************************************************************************)
EXTENDS Integers, Sequences, FiniteSets

VARIABLES
    text,              \* the input of the operation under way (text / input_text)
    pc,                \* position in the running operation
    sentences,         \* split_sentences' result (translate's local `sentences`)
    masked,            \* preserve_special_terms' first result
    preserved,         \* preserve_special_terms' second result
    restored,          \* restore_preserved_terms' result
    idx,               \* 1-based position of translate's for loop in `sentences`
    translated_parts,  \* translate's local list
    hindi_result,      \* translate's local of the two-step path
    calls,             \* log of the requests made to GoogleTranslator.translate
    raised,            \* an exception left a collaborator call in this translate
    ret,               \* translate's return value
    caller,            \* "none", "direct" (translate called as a method) or "main"
    history,           \* st.session_state.history
    warned             \* the last Translate press showed the empty-input warning

vars == <<text, pc, sentences, masked, preserved, restored, idx, translated_parts,
          hindi_result, calls, raised, ret, caller, history, warned>>

----------------------------------------------------------------------------
(* Bounds of the checked instances. *)

\* Longest input, counted in fragments of Fragments.
MaxFrags == 3

\* Most history entries of one checked session.
MaxSubmits == 2

----------------------------------------------------------------------------
(* Characters and character classes. *)

Underscore == 95
Space == 32

\* The characters of the string literal that split_sentences tests `char in`, as
\* the file stores it: '.', '!', '?', U+2021, U+2022, U+00A7.
Terminators == {46, 33, 63, 8225, 8226, 167}

\* re.compile(r'[\u0900-\u097F]')
hindi_pattern == 2304..2431

\* re.compile(r'[a-zA-Z]'), also the class [a-zA-Z] of the proper-noun pattern
english_pattern == (65..90) \cup (97..122)

\* [A-Z]
UpperClass == 65..90

\* \d of a str pattern: the decimal digits (ASCII and Devanagari here)
DigitClass == (48..57) \cup (2406..2415)

\* [-/.]
SeparatorClass == {45, 47, 46}

\* \w of a str pattern: str.isalnum() or '_'
WordClass ==
    (48..57) \cup (65..90) \cup (97..122) \cup {Underscore}
        \cup (2308..2361) \cup {2365, 2384} \cup (2392..2401)
        \cup (2406..2415) \cup (2417..2431)

\* str.isspace(), the characters str.strip() removes
WhitespaceClass == (9..13) \cup (28..32)

\* The literal prefix of f"PRESERVED_{len(preserved)}"
MarkerPrefix == <<80, 82, 69, 83, 69, 82, 86, 69, 68, 95>>

\* "Translation failed. Please try again."
FailureMessage ==
    <<84, 114, 97, 110, 115, 108, 97, 116, 105, 111, 110, 32, 102, 97, 105, 108,
      101, 100, 46, 32, 80, 108, 101, 97, 115, 101, 32, 116, 114, 121, 32, 97,
      103, 97, 105, 110, 46>>

----------------------------------------------------------------------------
(* Strings. *)

Max(S) == CHOOSE x \in S : \A y \in S : y <= x

Min(S) == CHOOSE x \in S : \A y \in S : x <= y

\* str(n) for n >= 0, as the f-string formats len(preserved)
RECURSIVE Decimal(_)
Decimal(n) ==
    IF n < 10 THEN <<48 + n>> ELSE Decimal(n \div 10) \o <<48 + (n % 10)>>

\* s.startswith(old, p - 1), p a 1-based position
StartsWithAt(s, p, old) ==
    /\ p + Len(old) - 1 <= Len(s)
    /\ SubSeq(s, p, p + Len(old) - 1) = old

\* s.replace(old, new) for a non-empty old: every occurrence, leftmost first,
\* not overlapping.  One step per occurrence: the text up to it is copied, the
\* occurrence replaced, and the search goes on behind it.
RECURSIVE ReplaceFrom(_, _, _, _, _)
ReplaceFrom(s, from, old, new, out) ==
    LET found == {p \in from..Len(s) : StartsWithAt(s, p, old)} IN
    IF found = {} THEN out \o SubSeq(s, from, Len(s))
    ELSE LET p == Min(found) IN
         ReplaceFrom(s, p + Len(old), old, new,
                     out \o SubSeq(s, from, p - 1) \o new)

str_replace(s, old, new) == ReplaceFrom(s, 1, old, new, <<>>)

\* s.strip(): leading and trailing whitespace removed
RECURSIVE LStrip(_)
LStrip(s) ==
    IF s # <<>> /\ Head(s) \in WhitespaceClass THEN LStrip(Tail(s)) ELSE s

RECURSIVE RStrip(_)
RStrip(s) ==
    IF s # <<>> /\ s[Len(s)] \in WhitespaceClass
    THEN RStrip(SubSeq(s, 1, Len(s) - 1)) ELSE s

StripIdentity(s) == s

str_strip(s) == RStrip(LStrip(s))

\* ' '.join(parts)
RECURSIVE JoinFrom(_, _, _)
JoinFrom(parts, i, out) ==
    IF i > Len(parts) THEN out
    ELSE JoinFrom(parts, i + 1,
                  IF i = 1 THEN parts[i] ELSE out \o <<Space>> \o parts[i])

RECURSIVE JoinTrailing(_)
JoinTrailing(parts) ==
    IF parts = <<>> THEN <<>>
    ELSE Head(parts) \o <<Space>> \o JoinTrailing(Tail(parts))

str_join(parts) == JoinFrom(parts, 1, <<>>)

----------------------------------------------------------------------------
(* HinglishTranslator: the pure methods. *)

\* detect_language_mix: pattern.search(text) finds a character of the class
detect_language_mix(s) ==
    [has_hindi   |-> \E i \in 1..Len(s) : s[i] \in hindi_pattern,
     has_english |-> \E i \in 1..Len(s) : s[i] \in english_pattern]

\* split_sentences: the for loop over the characters, then the trailing flush
RECURSIVE SplitLoop(_, _, _, _)
SplitLoop(s, i, current, out) ==
    IF i > Len(s) THEN [current |-> current, sentences |-> out]
    ELSE LET cur == Append(current, s[i]) IN
         IF s[i] \in Terminators
         THEN SplitLoop(s, i + 1, <<>>, Append(out, cur))
         ELSE SplitLoop(s, i + 1, cur, out)

SplitNoFlush(s) == SplitLoop(s, 1, <<>>, <<>>).sentences

split_sentences(s) ==
    LET r == SplitLoop(s, 1, <<>>, <<>>) IN
    IF r.current # <<>> THEN Append(r.sentences, r.current) ELSE r.sentences

\* \b at the gap after position i (0 = before the first character): exactly one
\* of the two neighbours is a word character; the ends of the string count as
\* non-word
IsWordAt(s, i) == i >= 1 /\ i <= Len(s) /\ s[i] \in WordClass

WordBoundary(s, i) == IsWordAt(s, i) # IsWordAt(s, i + 1)

\* The last position of the run of class characters that starts at p
RECURSIVE RunEnd(_, _, _)
RunEnd(s, p, class) ==
    IF p < Len(s) /\ s[p + 1] \in class THEN RunEnd(s, p + 1, class) ELSE p

\* The end positions e at which s[p..e] is in \d+(?:[-/.]\d+)*
RECURSIVE NumberEnds(_, _)
NumberEnds(s, p) ==
    LET e == RunEnd(s, p, DigitClass) IN
    (p..e) \cup
        (IF e + 2 <= Len(s) /\ s[e + 1] \in SeparatorClass /\ s[e + 2] \in DigitClass
         THEN NumberEnds(s, e + 2) ELSE {})

\* Where pattern.match(s, p - 1) ends, 0 when there is no match at p.  Both
\* patterns are greedy, so of the ends that satisfy the closing \b the regular
\* expression engine takes the rightmost.
\* pass 1: r'\b[A-Z][a-zA-Z]*\b'
ProperNounEnd(s, p) ==
    IF WordBoundary(s, p - 1) /\ s[p] \in UpperClass
    THEN LET ends == {e \in p..RunEnd(s, p, english_pattern) : WordBoundary(s, e)}
         IN  IF ends = {} THEN 0 ELSE Max(ends)
    ELSE 0

NumberEndNoBoundary(s, p) ==
    IF s[p] \in DigitClass
    THEN LET ends == {e \in NumberEnds(s, p) : WordBoundary(s, e)}
         IN  IF ends = {} THEN 0 ELSE Max(ends)
    ELSE 0

\* pass 2: r'\b\d+(?:[-/.]\d+)*\b'
NumberEnd(s, p) ==
    IF WordBoundary(s, p - 1) /\ s[p] \in DigitClass
    THEN LET ends == {e \in NumberEnds(s, p) : WordBoundary(s, e)}
         IN  IF ends = {} THEN 0 ELSE Max(ends)
    ELSE 0

MatchEnd(pass, s, p) == IF pass = 1 THEN ProperNounEnd(s, p) ELSE NumberEnd(s, p)

\* f"PRESERVED_{n}"
Marker(n) == MarkerPrefix \o Decimal(n)

\* _preserve_term: the marker for the next index, the term appended
preserve_term(term, kept) ==
    [marker |-> Marker(Len(kept)), preserved |-> Append(kept, term)]

\* re.sub(pattern, lambda m: self._preserve_term(m.group(), preserved), text):
\* the matches from left to right, not overlapping.  One step per match: the
\* leftmost match at or behind `from` is found, the text up to it is copied, the
\* match is replaced by its marker, and the search goes on behind the match.
RECURSIVE SubFrom(_, _, _, _, _)
SubFrom(pass, s, from, out, kept) ==
    LET found == {p \in from..Len(s) : MatchEnd(pass, s, p) # 0} IN
    IF found = {} THEN [text |-> out \o SubSeq(s, from, Len(s)), preserved |-> kept]
    ELSE LET p == Min(found)
             e == MatchEnd(pass, s, p)
             r == preserve_term(SubSeq(s, p, e), kept)
         IN  SubFrom(pass, s, e + 1, out \o SubSeq(s, from, p - 1) \o r.marker,
                     r.preserved)

\* preserve_special_terms: pass 1 on the text, pass 2 on the result of pass 1
preserve_special_terms(s) ==
    LET one == SubFrom(1, s, 1, <<>>, <<>>) IN
    SubFrom(2, one.text, 1, <<>>, one.preserved)

\* restore_preserved_terms: one str.replace per preserved term, in index order
RECURSIVE RestoreFrom(_, _, _)
RestoreFrom(s, kept, i) ==
    IF i > Len(kept) THEN s
    ELSE RestoreFrom(str_replace(s, Marker(i - 1), kept[i]), kept, i + 1)

restore_preserved_terms(s, kept) == RestoreFrom(s, kept, 1)

----------------------------------------------------------------------------
(* Inputs. *)

\* "Jo", "ab", "12", "/", " ", ".", U+092E (Devanagari MA), "PRESERVED_0"
Fragments ==
    { <<74, 111>>, <<97, 98>>, <<49, 50>>, <<47>>, <<32>>, <<46>>, <<2350>>,
      <<80, 82, 69, 83, 69, 82, 86, 69, 68, 95, 48>> }

RECURSIVE Flatten(_)
Flatten(ss) == IF ss = <<>> THEN <<>> ELSE Head(ss) \o Flatten(Tail(ss))

FragmentTexts ==
    UNION { { Flatten(fs) : fs \in [1..n -> Fragments] } : n \in 0..MaxFrags }

\* "I met John on 12/05/2023"
ExampleText ==
    <<73, 32, 109, 101, 116, 32, 74, 111, 104, 110, 32, 111, 110, 32,
      49, 50, 47, 48, 53, 47, 50, 48, 50, 51>>

\* "A B C D E F G H I J K": eleven capitalized words
ElevenNames ==
    <<65, 32, 66, 32, 67, 32, 68, 32, 69, 32, 70, 32, 71, 32, 72, 32, 73, 32,
      74, 32, 75>>

Texts == FragmentTexts \cup {ExampleText, ElevenNames}

----------------------------------------------------------------------------
(* The pure methods applied to an input: split, preserve, restore. *)

InitTerms ==
    /\ text \in Texts
    /\ pc = "input"
    /\ sentences = <<>>
    /\ masked = <<>>
    /\ preserved = <<>>
    /\ restored = <<>>
    /\ idx = 0
    /\ translated_parts = <<>>
    /\ hindi_result = <<>>
    /\ calls = <<>>
    /\ raised = FALSE
    /\ ret = <<>>
    /\ caller = "none"
    /\ history = <<>>
    /\ warned = FALSE

SplitSentences ==
    /\ pc = "input"
    /\ sentences' = split_sentences(text)
    /\ pc' = "split"
    /\ UNCHANGED <<text, masked, preserved, restored, idx, translated_parts,
                   hindi_result, calls, raised, ret, caller, history, warned>>

PreserveSpecialTerms ==
    /\ pc = "split"
    /\ LET r == preserve_special_terms(text) IN
       /\ masked' = r.text
       /\ preserved' = r.preserved
    /\ pc' = "preserved"
    /\ UNCHANGED <<text, sentences, restored, idx, translated_parts,
                   hindi_result, calls, raised, ret, caller, history, warned>>

RestorePreservedTerms ==
    /\ pc = "preserved"
    /\ restored' = restore_preserved_terms(masked, preserved)
    /\ pc' = "restored"
    /\ UNCHANGED <<text, sentences, masked, preserved, idx, translated_parts,
                   hindi_result, calls, raised, ret, caller, history, warned>>

NextTerms == SplitSentences \/ PreserveSpecialTerms \/ RestorePreservedTerms

SpecTerms == InitTerms /\ [][NextTerms]_vars

----------------------------------------------------------------------------
(* The external collaborator: deep_translator's GoogleTranslator. *)

\* GoogleTranslator(source='auto', target='hi')
hindi_translator == [source |-> "auto", target |-> "hi"]

\* GoogleTranslator(source='hi', target='en')
english_translator == [source |-> "hi", target |-> "en"]

\* GoogleTranslator(source='auto', target='en')
auto_translator == [source |-> "auto", target |-> "en"]

\* What a call may answer: "ok" or "PRESERVED_0".  The service is outside the
\* repository; every call either answers one of these or raises.
Responses == { <<111, 107>>, <<80, 82, 69, 83, 69, 82, 86, 69, 68, 95, 48>> }

\* One entry of the call log: translator.translate(s) made while the loop is at
\* sentence k; ok is FALSE when the call raised
Request(translator, s, k, ok, r) ==
    [sentence |-> k, source |-> translator.source, target |-> translator.target,
     text |-> s, ok |-> ok, result |-> r]

----------------------------------------------------------------------------
(* HinglishTranslator.translate *)

RouteHindiFirst(mix) ==
    IF mix.has_hindi THEN "hindi" ELSE "auto"

\* The branch of `if has_hindi and has_english / elif has_hindi / else`
route(mix) ==
    IF mix.has_hindi /\ mix.has_english THEN "mixed"
    ELSE IF mix.has_hindi THEN "hindi"
    ELSE "auto"

\* The start of translate(t): the blank check, split_sentences, the empty list
Begin(t) ==
    /\ calls' = <<>>
    /\ raised' = FALSE
    /\ hindi_result' = <<>>
    /\ translated_parts' = <<>>
    /\ IF str_strip(t) = <<>>
       THEN /\ ret' = <<>>
            /\ pc' = "returned"
            /\ sentences' = <<>>
            /\ idx' = 0
       ELSE /\ sentences' = split_sentences(t)
            /\ idx' = 1
            /\ pc' = "loop"
            /\ ret' = <<>>

AtSentence ==
    /\ pc = "loop"
    /\ idx <= Len(sentences)

\* `if not sentence.strip(): continue`
SkipBlank ==
    /\ AtSentence
    /\ str_strip(sentences[idx]) = <<>>
    /\ idx' = idx + 1
    /\ UNCHANGED <<text, pc, sentences, masked, preserved, restored,
                   translated_parts, hindi_result, calls, raised, ret, caller,
                   history, warned>>

\* `result = ...translate(...)` answered r, then translated_parts.append(result)
AppendResult(translator, s, r) ==
    /\ calls' = Append(calls, Request(translator, s, idx, TRUE, r))
    /\ translated_parts' = Append(translated_parts, r)
    /\ idx' = idx + 1
    /\ pc' = "loop"
    /\ UNCHANGED <<raised, hindi_result>>

\* The call raised: control leaves the loop for the except clause
Raise(translator, s) ==
    /\ calls' = Append(calls, Request(translator, s, idx, FALSE, <<>>))
    /\ raised' = TRUE
    /\ pc' = "except"
    /\ UNCHANGED <<translated_parts, idx, hindi_result>>

\* Mixed text, first call: hindi_result = self.hindi_translator.translate(sentence)
TranslateToHindi ==
    /\ AtSentence
    /\ str_strip(sentences[idx]) # <<>>
    /\ route(detect_language_mix(sentences[idx])) = "mixed"
    /\ \/ \E r \in Responses :
            /\ calls' = Append(calls,
                               Request(hindi_translator, sentences[idx], idx, TRUE, r))
            /\ hindi_result' = r
            /\ pc' = "second"
            /\ UNCHANGED <<raised, translated_parts, idx>>
       \/ Raise(hindi_translator, sentences[idx])
    /\ UNCHANGED <<text, sentences, masked, preserved, restored, ret, caller,
                   history, warned>>

\* Mixed text, second call: result = self.english_translator.translate(hindi_result)
TranslateHindiResult ==
    /\ pc = "second"
    /\ \/ \E r \in Responses : AppendResult(english_translator, hindi_result, r)
       \/ Raise(english_translator, hindi_result)
    /\ UNCHANGED <<text, sentences, masked, preserved, restored, ret, caller,
                   history, warned>>

\* Pure Hindi text: result = self.english_translator.translate(sentence)
TranslateHindi ==
    /\ AtSentence
    /\ str_strip(sentences[idx]) # <<>>
    /\ route(detect_language_mix(sentences[idx])) = "hindi"
    /\ \/ \E r \in Responses : AppendResult(english_translator, sentences[idx], r)
       \/ Raise(english_translator, sentences[idx])
    /\ UNCHANGED <<text, sentences, masked, preserved, restored, ret, caller,
                   history, warned>>

\* Otherwise: result = self.auto_translator.translate(sentence)
TranslateAuto ==
    /\ AtSentence
    /\ str_strip(sentences[idx]) # <<>>
    /\ route(detect_language_mix(sentences[idx])) = "auto"
    /\ \/ \E r \in Responses : AppendResult(auto_translator, sentences[idx], r)
       \/ Raise(auto_translator, sentences[idx])
    /\ UNCHANGED <<text, sentences, masked, preserved, restored, ret, caller,
                   history, warned>>

\* The loop is over: return ' '.join(translated_parts)
ReturnJoined ==
    /\ pc = "loop"
    /\ idx > Len(sentences)
    /\ ret' = str_join(translated_parts)
    /\ pc' = "returned"
    /\ UNCHANGED <<text, sentences, masked, preserved, restored, idx,
                   translated_parts, hindi_result, calls, raised, caller, history,
                   warned>>

ReturnPartial ==
    /\ pc = "except"
    /\ ret' = str_join(translated_parts)
    /\ pc' = "returned"
    /\ UNCHANGED <<text, sentences, masked, preserved, restored, idx,
                   translated_parts, hindi_result, calls, raised, caller, history,
                   warned>>

\* except Exception: st.error(...); return "Translation failed. Please try again."
ReturnFailure ==
    /\ pc = "except"
    /\ ret' = FailureMessage
    /\ pc' = "returned"
    /\ UNCHANGED <<text, sentences, masked, preserved, restored, idx,
                   translated_parts, hindi_result, calls, raised, caller, history,
                   warned>>

TranslateSteps ==
    \/ SkipBlank
    \/ TranslateToHindi
    \/ TranslateHindiResult
    \/ TranslateHindi
    \/ TranslateAuto
    \/ ReturnJoined
    \/ ReturnFailure

----------------------------------------------------------------------------
(* translate(text) called on its own, for every text of Texts. *)

InitTranslate ==
    /\ text \in Texts
    /\ pc = "start"
    /\ caller = "direct"
    /\ sentences = <<>>
    /\ masked = <<>>
    /\ preserved = <<>>
    /\ restored = <<>>
    /\ idx = 0
    /\ translated_parts = <<>>
    /\ hindi_result = <<>>
    /\ calls = <<>>
    /\ raised = FALSE
    /\ ret = <<>>
    /\ history = <<>>
    /\ warned = FALSE

CallTranslate ==
    /\ pc = "start"
    /\ Begin(text)
    /\ UNCHANGED <<text, masked, preserved, restored, caller, history, warned>>

NextTranslate == CallTranslate \/ TranslateSteps

SpecTranslate == InitTranslate /\ [][NextTranslate]_vars

----------------------------------------------------------------------------
(* main(): the Translate button and the session history. *)

\* What the user submits in the checked sessions: " ", "ab. ", U+092E "ab" (mixed),
\* U+092E (Hindi only)
SessionTexts ==
    { <<32>>, <<97, 98, 46, 32>>, <<2350, 32, 97, 98>>, <<2350>> }

Init ==
    /\ text = <<>>
    /\ pc = "idle"
    /\ caller = "none"
    /\ sentences = <<>>
    /\ masked = <<>>
    /\ preserved = <<>>
    /\ restored = <<>>
    /\ idx = 0
    /\ translated_parts = <<>>
    /\ hindi_result = <<>>
    /\ calls = <<>>
    /\ raised = FALSE
    /\ ret = <<>>
    /\ history = <<>>
    /\ warned = FALSE

\* if st.button("Translate"): if input_text.strip(): translation = translate(...)
\* else: st.warning(...)
PressTranslate ==
    /\ pc = "idle"
    /\ Len(history) < MaxSubmits
    /\ \E t \in SessionTexts :
          /\ text' = t
          /\ IF str_strip(t) # <<>>
             THEN /\ Begin(t)
                  /\ caller' = "main"
                  /\ warned' = FALSE
             ELSE /\ warned' = TRUE
                  /\ UNCHANGED <<pc, sentences, idx, translated_parts, hindi_result,
                                 calls, raised, ret, caller>>
    /\ UNCHANGED <<masked, preserved, restored, history>>

\* translate has returned: the result is shown and
\* st.session_state.history.append({'Original': ..., 'Translation': ...})
AppendHistory ==
    /\ pc = "returned"
    /\ caller = "main"
    /\ history' = Append(history, [Original |-> text, Translation |-> ret])
    /\ pc' = "idle"
    /\ caller' = "none"
    /\ sentences' = <<>>
    /\ idx' = 0
    /\ translated_parts' = <<>>
    /\ hindi_result' = <<>>
    /\ UNCHANGED <<text, masked, preserved, restored, calls, raised, ret, warned>>

Next == PressTranslate \/ TranslateSteps \/ AppendHistory

Spec == Init /\ [][Next]_vars

----------------------------------------------------------------------------
(* Properties: what the checked statements read off a state. *)

AllWhitespace(s) == \A i \in 1..Len(s) : s[i] \in WhitespaceClass

HasDevanagari(s) == \E i \in 1..Len(s) : s[i] >= 2304 /\ s[i] <= 2431

HasAsciiLetter(s) ==
    \E i \in 1..Len(s) : (s[i] >= 65 /\ s[i] <= 90) \/ (s[i] >= 97 /\ s[i] <= 122)

IsSubstring(u, s) == \E p \in 1..Len(s) : StartsWithAt(s, p, u)

\* The calls logged while the loop was at sentence k, in order
CallsOf(k) == SelectSeq(calls, LAMBDA c : c.sentence = k)

IsCall(c, source, target, s) ==
    c.source = source /\ c.target = target /\ c.text = s

\* The positions of the non-blank spans of `sentences`, in order
NonBlankSpans ==
    SelectSeq([k \in 1..Len(sentences) |-> k],
              LAMBDA k : ~AllWhitespace(sentences[k]))

\* What the last call made for sentence k answered
FinalResult(k) == CallsOf(k)[Len(CallsOf(k))].result

\* parts[1] ' ' parts[2] ' ' ... parts[n]: one space between neighbours only
RECURSIVE SpaceSeparated(_)
SpaceSeparated(parts) ==
    IF parts = <<>> THEN <<>>
    ELSE IF Len(parts) = 1 THEN parts[1]
    ELSE parts[1] \o <<32>> \o SpaceSeparated(Tail(parts))

\* The indices n for which the token PRESERVED_<n> occurs in s
PlaceholderIndices(s) ==
    {n \in 0..Len(s) :
        \E p \in 1..Len(s) :
            /\ StartsWithAt(s, p, Marker(n))
            /\ LET q == p + Len(Marker(n)) IN ~(q <= Len(s) /\ s[q] \in 48..57)}

\* The capitalized Latin words of t: <<first, last>> of every stretch of ASCII
\* letters that starts with a capital and has no word character next to it
NotWordAt(t, i) == i < 1 \/ i > Len(t) \/ t[i] \notin WordClass

CapitalizedWords(t) ==
    {w \in (1..Len(t)) \X (1..Len(t)) :
        /\ w[1] <= w[2]
        /\ t[w[1]] \in 65..90
        /\ \A i \in w[1]..w[2] : t[i] \in (65..90) \cup (97..122)
        /\ NotWordAt(t, w[1] - 1)
        /\ NotWordAt(t, w[2] + 1)}

\* The digit/date tokens of t: digits with single '-', '/' or '.' between
\* digits, no word character next to them, and not part of a longer such token
NumericCandidates(t) ==
    {w \in (1..Len(t)) \X (1..Len(t)) :
        /\ w[1] <= w[2]
        /\ t[w[1]] \in DigitClass
        /\ t[w[2]] \in DigitClass
        /\ \A i \in w[1]..w[2] :
              \/ t[i] \in DigitClass
              \/ /\ t[i] \in {45, 46, 47}
                 /\ t[i - 1] \in DigitClass
                 /\ t[i + 1] \in DigitClass
        /\ NotWordAt(t, w[1] - 1)
        /\ NotWordAt(t, w[2] + 1)}

NumericTokens(t) ==
    {w \in NumericCandidates(t) :
        ~\E v \in NumericCandidates(t) : v # w /\ v[1] <= w[1] /\ w[2] <= v[2]}

\* The spans of W in order of appearance
RECURSIVE InOrder(_)
InOrder(W) ==
    IF W = {} THEN <<>>
    ELSE LET first == CHOOSE w \in W : \A v \in W : w[1] <= v[1]
         IN  <<first>> \o InOrder(W \ {first})

TermsOf(t, W) == [i \in 1..Len(InOrder(W)) |-> SubSeq(t, InOrder(W)[i][1], InOrder(W)[i][2])]

\* The preserved list the statement describes: the capitalized words in order
\* of appearance, then the numeric tokens in order of appearance
ExpectedPreserved(t) ==
    TermsOf(t, CapitalizedWords(t)) \o TermsOf(t, NumericTokens(t))

\* The list index of a masked span: its rank among the capitalized words, or
\* the number of capitalized words plus its rank among the numeric tokens
ExpectedIndex(t, w) ==
    IF w \in CapitalizedWords(t)
    THEN Cardinality({v \in CapitalizedWords(t) : v[1] < w[1]})
    ELSE Cardinality(CapitalizedWords(t))
             + Cardinality({v \in NumericTokens(t) : v[1] < w[1]})

\* t with every span of `spans` (in order) replaced by the marker of its index
RECURSIVE MaskSpans(_, _, _)
MaskSpans(t, spans, from) ==
    IF spans = <<>> THEN SubSeq(t, from, Len(t))
    ELSE SubSeq(t, from, Head(spans)[1] - 1)
             \o Marker(ExpectedIndex(t, Head(spans)))
             \o MaskSpans(t, Tail(spans), Head(spans)[2] + 1)

ExpectedMasked(t) ==
    MaskSpans(t, InOrder(CapitalizedWords(t) \cup NumericTokens(t)), 1)

----------------------------------------------------------------------------
(* The checked statements. *)

\* C1: concatenating the spans split_sentences returns, in order, gives back
\* the input text exactly, and the empty text yields the empty sequence.
C1_LosslessSegmentation ==
    pc \in {"split", "preserved", "restored"} =>
        /\ Flatten(sentences) = text
        /\ (text = <<>> => sentences = <<>>)

\* C1 witness: a text was split in two spans, the second without a terminator.
C1_Witness ==
    /\ pc = "split"
    /\ Len(sentences) = 2
    /\ sentences[2][Len(sentences[2])] \notin Terminators

\* C2: restore_preserved_terms(preserve_special_terms(t)) is t, for any number
\* of preserved terms and any content of t.
C2_RoundTrip ==
    pc = "restored" => restored = text

\* C3: the calls made for a sentence are decided by script detection alone.
\* For a blank span none; for a sentence with both scripts auto->hi on the
\* sentence, then hi->en on the answer of the first call; with Devanagari only
\* one hi->en call on the sentence; without Devanagari one auto->en call on the
\* sentence.  At any moment the calls made for a sentence are the first calls of
\* that list, and all of it once the loop has moved past the sentence.
C3_Routing ==
    \A k \in 1..Len(sentences) :
        LET s  == sentences[k]
            cs == CallsOf(k)
        IN  IF AllWhitespace(s) THEN cs = <<>>
            ELSE IF HasDevanagari(s) /\ HasAsciiLetter(s)
            THEN /\ Len(cs) <= 2
                 /\ Len(cs) >= 1 => IsCall(cs[1], "auto", "hi", s)
                 /\ Len(cs) = 2 => cs[1].ok /\ IsCall(cs[2], "hi", "en", cs[1].result)
                 /\ (pc \in {"loop", "returned"} /\ k < idx) => Len(cs) = 2 /\ cs[2].ok
            ELSE IF HasDevanagari(s)
            THEN /\ Len(cs) <= 1
                 /\ Len(cs) = 1 => IsCall(cs[1], "hi", "en", s)
                 /\ (pc \in {"loop", "returned"} /\ k < idx) => Len(cs) = 1 /\ cs[1].ok
            ELSE /\ Len(cs) <= 1
                 /\ Len(cs) = 1 => IsCall(cs[1], "auto", "en", s)
                 /\ (pc \in {"loop", "returned"} /\ k < idx) => Len(cs) = 1 /\ cs[1].ok

\* C3 witness: translate returned after a one-call sentence and a sentence of
\* both scripts with its two calls.
C3_Witness ==
    /\ pc = "returned"
    /\ ~raised
    /\ \E k \in 1..Len(sentences) : Len(CallsOf(k)) = 2
    /\ \E k \in 1..Len(sentences) : Len(CallsOf(k)) = 1

\* C4: once a collaborator call has failed, translate makes no further call and
\* returns exactly the fixed failure string, never the parts translated so far.
C4_FailureAborts ==
    /\ []((raised /\ pc = "returned") => ret = FailureMessage)
    /\ [][raised => (calls' = calls /\ pc' = "returned")]_vars

\* C4 witness: the second call of the two-step path failed after an earlier
\* sentence had been translated, and translate returned.
C4_Witness ==
    /\ pc = "returned"
    /\ raised
    /\ translated_parts # <<>>
    /\ Len(CallsOf(idx)) = 2

\* C5: for an empty or whitespace-only input translate returns the empty
\* string and makes no call to the collaborator.
C5_BlankInput ==
    (pc # "start" /\ AllWhitespace(text)) =>
        /\ pc = "returned"
        /\ ret = <<>>
        /\ calls = <<>>

\* C5 witness: translate returned for an input of whitespace characters.
C5_Witness ==
    /\ pc = "returned"
    /\ text # <<>>
    /\ AllWhitespace(text)

\* C6: for every non-blank sentence the text handed to the collaborator is the
\* masked text of preserve_special_terms, and the part joined into the output
\* is the collaborator's answer passed through restore_preserved_terms with
\* that sentence's preserved list.
C6_PreserveRouteRestore ==
    /\ \A k \in 1..Len(sentences) :
          CallsOf(k) # <<>> =>
              CallsOf(k)[1].text = preserve_special_terms(sentences[k]).text
    /\ \A i \in 1..Len(translated_parts) :
          translated_parts[i] =
              restore_preserved_terms(
                  FinalResult(NonBlankSpans[i]),
                  preserve_special_terms(sentences[NonBlankSpans[i]]).preserved)

\* C7: after preserve_special_terms the placeholder tokens occurring in the
\* masked text are exactly PRESERVED_0 .. PRESERVED_<N-1>, N the length of the
\* preserved list, and none of them is a substring of the input text.
C7_PlaceholderRange ==
    pc \in {"preserved", "restored"} =>
        /\ PlaceholderIndices(masked) = 0..(Len(preserved) - 1)
        /\ \A n \in 0..(Len(preserved) - 1) : ~IsSubstring(Marker(n), text)

\* C8: the history changes only by appending {original, translation} after a
\* translation of the submitted text that completed without a failure; a failed
\* translation and a blank submission append nothing.
C8_HistoryAppendOnly ==
    [][history' # history =>
          /\ history' = Append(history, [Original |-> text, Translation |-> ret])
          /\ pc = "returned"
          /\ ~AllWhitespace(text)
          /\ ~raised]_vars

\* C9: the calls are made in segmentation order, none for a blank span, and
\* without a failure the returned text is the answers for the non-blank spans,
\* in segmentation order, with exactly one space between neighbours.
C9_SequentialJoin ==
    /\ \A i, j \in 1..Len(calls) : i < j => calls[i].sentence <= calls[j].sentence
    /\ \A i \in 1..Len(calls) : ~AllWhitespace(sentences[calls[i].sentence])
    /\ (pc = "returned" /\ ~raised /\ ~AllWhitespace(text)) =>
          ret = SpaceSeparated([i \in 1..Len(NonBlankSpans) |->
                                   FinalResult(NonBlankSpans[i])])

\* C9 witness: translate returned two joined answers for a text whose last
\* span is blank.
C9_Witness ==
    /\ pc = "returned"
    /\ ~raised
    /\ Len(translated_parts) = 2
    /\ Len(sentences) = 3
    /\ AllWhitespace(sentences[3])

\* C10: preserve_special_terms masks exactly the capitalized Latin words and
\* the digit/date tokens of the input: the preserved list is the capitalized
\* words in order of appearance followed by the numeric tokens in order of
\* appearance, the term at index i is the one replaced by PRESERVED_<i>, and the
\* digits of a placeholder are never masked again; for "I met John on
\* 12/05/2023" the terms "John" and "12/05/2023" become the two distinct
\* placeholders PRESERVED_1 and PRESERVED_2, in that order.
C10_MaskedTerms ==
    pc \in {"preserved", "restored"} =>
        /\ preserved = ExpectedPreserved(text)
        /\ masked = ExpectedMasked(text)
        /\ text = ExampleText =>
              /\ preserved = << <<73>>, <<74, 111, 104, 110>>,
                                <<49, 50, 47, 48, 53, 47, 50, 48, 50, 51>> >>
              /\ masked = Marker(0) \o <<32, 109, 101, 116, 32>> \o Marker(1)
                              \o <<32, 111, 110, 32>> \o Marker(2)

\* C10 witness: the example text has been masked, three terms preserved.
C10_Witness ==
    /\ pc = "preserved"
    /\ text = ExampleText
    /\ Len(preserved) = 3

====
